---- MODULE Spec2Model ----
(***************************************************************************)
(* hello-gl: the GPU resource handle wrappers (VertexArray, Buffer,        *)
(* Shader, Program), the startup sequence of main and the event handler    *)
(* passed to event_loop.run, modelled from src/src/main.rs.                *)
(*                                                                         *)
(* The OpenGL driver and the windowing event loop are the environment:     *)
(* every value the driver hands back (handles, status flags, info logs,    *)
(* the result of swap_buffers) and every event delivered to the handler    *)
(* is a nondeterministic choice.  Every driver call is appended to         *)
(* glCalls, so orderings and counts of calls are read off that trace.      *)
(***************************************************************************)
EXTENDS Integers, Sequences, FiniteSets, TLC

(* ---- bounds of the model ---- *)
MaxName   == 1     \* vertex array and buffer names are drawn from 0..MaxName
MaxHandle == 3     \* shader and program names are drawn from 0..MaxHandle
MaxLog    == 2     \* short info logs of every content up to this length
MaxEvents == 4     \* events delivered to the handler before LoopDestroyed
MaxDim    == 2     \* window sizes are <<w, w + 1>> for w in 1..MaxDim

(* ---- program constants ---- *)
\* faulty variant: a buffer smaller than the bufSize given to the driver
InfoLogCapacity_mut == 1024 \div 2
InfoLogCapacity  == 1024   \* Vec::with_capacity(1024)
InfoLogMaxLength == 1024   \* bufSize handed to Get{Shader,Program}InfoLog
VertexCount      == 3      \* VERTICES: [Vertex; 3]
VertexComponents == 3      \* type Vertex = [f32; 3]
FloatSize        == 4      \* size_of::<f32>()

GL_VERTEX_SHADER    == 35633
GL_FRAGMENT_SHADER  == 35632
GL_ARRAY_BUFFER     == 34962
GL_STATIC_DRAW      == 35044
GL_FLOAT            == 5126
GL_FALSE            == 0
GL_COMPILE_STATUS   == 35713
GL_LINK_STATUS      == 35714
GL_COLOR_BUFFER_BIT == 16384
GL_TRIANGLES        == 4

\* gl::ClearColor(0.2, 0.3, 0.3, 1.0), in tenths
ClearColorTenths == <<2, 3, 3, 10>>

ArrayNames == 0..MaxName
Sizes      == {<<w, w + 1>> : w \in 1..MaxDim}
\* inner size of the window as built by WindowBuilder::new()
InitialSize == <<1, 2>>
\* bytes an info log may hold: 'A', '"' (escaped by {:?}), 0xFF (never valid UTF-8)
Bytes   == {65, 34, 255}

(* ---- Result<T, anyhow::Error> ---- *)
Ok(v)  == [tag |-> "Ok", val |-> v, msg |-> <<>>]
Err(m) == [tag |-> "Err", val |-> 0, msg |-> m]
None   == [tag |-> "None", val |-> 0, msg |-> <<>>]

\* one driver call in the trace
Call(name, args) == <<name, args>>

(* ---- text formatting: a text is a sequence of tokens ---- *)
Digit(d) == <<"0", "1", "2", "3", "4", "5", "6", "7", "8", "9">>[d + 1]

RECURSIVE Dec(_)
Dec(n) == IF n < 10 THEN <<Digit(n)>> ELSE Dec(n \div 10) \o <<Digit(n % 10)>>

\* one char of a str under {:?}: the double quote is escaped
DebugChar(b) == IF b = 34 THEN <<"\\", "\"">> ELSE IF b = 65 THEN <<"A">> ELSE <<"?">>

RECURSIVE DebugChars(_)
DebugChars(s) ==
    IF s = <<>> THEN <<>>
    ELSE IF Len(s) = 1 THEN DebugChar(s[1])
    ELSE LET m == Len(s) \div 2
         IN  DebugChars(SubSeq(s, 1, m)) \o DebugChars(SubSeq(s, m + 1, Len(s)))

RECURSIVE DebugByteList(_)
DebugByteList(s) ==
    IF s = <<>> THEN <<>>
    ELSE IF Len(s) = 1 THEN Dec(s[1])
    ELSE LET m == Len(s) \div 2
         IN  DebugByteList(SubSeq(s, 1, m)) \o <<", ">>
                \o DebugByteList(SubSeq(s, m + 1, Len(s)))

\* String::from_utf8: Ok(String) for valid UTF-8, else Err(FromUtf8Error)
ValidUtf8(buf) == \A i \in 1..Len(buf) : buf[i] < 128
ValidUpTo(buf) == CHOOSE i \in 0..Len(buf) :
                     /\ \A j \in 1..i : buf[j] < 128
                     /\ (i < Len(buf) => buf[i + 1] >= 128)

\* format!("{:?}", String::from_utf8(buf))
DebugFromUtf8(buf) ==
    IF ValidUtf8(buf)
    THEN <<"Ok(", "\"">> \o DebugChars(buf) \o <<"\"", ")">>
    ELSE <<"Err(FromUtf8Error { bytes: [">> \o DebugByteList(buf)
         \o <<"], error: Utf8Error { valid_up_to: ">> \o Dec(ValidUpTo(buf))
         \o <<", error_len: Some(1) } })">>

\* i32 -> usize, try_into(): negative values do not convert
TryIntoUsize(n) == IF n >= 0 THEN Ok(n) ELSE Err(<<"TryFromIntError(())">>)

\* Result::unwrap() on an Err value: the panic message
UnwrapPanic(m) == <<"called Result::unwrap() on an Err value: ">> \o m

(* ---- the driver's info logs ---- *)
RECURSIVE SeqsUpTo(_)
SeqsUpTo(n) ==
    IF n = 0 THEN {<<>>}
    ELSE LET S == SeqsUpTo(n - 1)
         IN  S \cup {Append(s, b) : s \in {t \in S : Len(t) = n - 1}, b \in Bytes}

\* glGet*InfoLog(obj, maxLength, &len, buf) writes at most maxLength - 1
\* characters and reports their number: every short log, and the longest one
DriverLogs(maxLength) ==
    {s \in SeqsUpTo(MaxLog) : Len(s) <= maxLength - 1}
        \cup {[i \in 1..(maxLength - 1) |-> 65]}

\* info-log retrieval shared by from_source and link: the Vec of capacity
\* InfoLogCapacity, set_len(log_len.try_into().unwrap()), the error text
InfoLog(log) ==
    LET log_len == Len(log)
        n       == TryIntoUsize(log_len)
    IN  IF n.tag = "Err"
        THEN [result |-> [tag |-> "Panic", val |-> 0, msg |-> UnwrapPanic(n.msg)],
              set_len |-> <<>>]
        ELSE [result  |-> Err(DebugFromUtf8(SubSeq(log, 1, n.val))),
              set_len |-> <<[len |-> n.val, cap |-> InfoLogCapacity]>>]

(* ---- VertexArray, Buffer, Program: creation ---- *)
\* faulty variant: the zero test is missing
VertexArray_new_mut(id) == Ok(id)
VertexArray_new(id) ==
    IF id = 0 THEN Err(<<"Failed to create vertex array">>) ELSE Ok(id)

\* faulty variant: the zero test is missing
Buffer_new_mut(id) == Ok(id)
Buffer_new(id) ==
    IF id = 0 THEN Err(<<"Failed to create buffer">>) ELSE Ok(id)

Program_new(id) ==
    IF id = 0 THEN Err(<<"Failed to create program">>) ELSE Ok(id)

(* ---- Shader::from_source ---- *)
\* id: what CreateShader returned; success: the COMPILE_STATUS flag;
\* log: what the driver writes as the info log
\* faulty variant: the error carries the bare log text, not its {:?} form
Shader_from_source_mut(kind, id, success, log) ==
    IF id = 0
    THEN [result |-> Err(<<"Failed to create shader">>),
          calls |-> <<Call("CreateShader", <<kind>>)>>, set_len |-> <<>>]
    ELSE LET pre == <<Call("CreateShader", <<kind>>),
                      Call("ShaderSource", <<id, 1>>),
                      Call("CompileShader", <<id>>),
                      Call("GetShaderiv", <<id, GL_COMPILE_STATUS>>)>>
         IN  IF success = 0
             THEN [result |-> Err(DebugChars(log)),
                   calls |-> Append(pre, Call("GetShaderInfoLog", <<id, InfoLogMaxLength>>)),
                   set_len |-> <<[len |-> Len(log), cap |-> InfoLogCapacity]>>]
             ELSE [result |-> Ok(id), calls |-> pre, set_len |-> <<>>]

Shader_from_source(kind, id, success, log) ==
    IF id = 0
    THEN [result |-> Err(<<"Failed to create shader">>),
          calls |-> <<Call("CreateShader", <<kind>>)>>, set_len |-> <<>>]
    ELSE LET pre == <<Call("CreateShader", <<kind>>),
                      Call("ShaderSource", <<id, 1>>),
                      Call("CompileShader", <<id>>),
                      Call("GetShaderiv", <<id, GL_COMPILE_STATUS>>)>>
         IN  IF success = 0
             THEN LET r == InfoLog(log)
                  IN  [result |-> r.result,
                       calls |-> Append(pre, Call("GetShaderInfoLog", <<id, InfoLogMaxLength>>)),
                       set_len |-> r.set_len]
             ELSE [result |-> Ok(id), calls |-> pre, set_len |-> <<>>]

(* ---- Program::link ---- *)
\* faulty variant: the error carries the bare log text, not its {:?} form
Program_link_mut(id, success, log) ==
    LET pre == <<Call("LinkProgram", <<id>>), Call("GetProgramiv", <<id, GL_LINK_STATUS>>)>>
    IN  IF success = 0
        THEN [result |-> Err(DebugChars(log)),
              calls |-> Append(pre, Call("GetProgramInfoLog", <<id, InfoLogMaxLength>>)),
              set_len |-> <<[len |-> Len(log), cap |-> InfoLogCapacity]>>]
        ELSE [result |-> Ok(<<>>), calls |-> pre, set_len |-> <<>>]

Program_link(id, success, log) ==
    LET pre == <<Call("LinkProgram", <<id>>), Call("GetProgramiv", <<id, GL_LINK_STATUS>>)>>
    IN  IF success = 0
        THEN LET r == InfoLog(log)
             IN  [result |-> r.result,
                  calls |-> Append(pre, Call("GetProgramInfoLog", <<id, InfoLogMaxLength>>)),
                  set_len |-> r.set_len]
        ELSE [result |-> Ok(<<>>), calls |-> pre, set_len |-> <<>>]

(* ---- state ---- *)
VARIABLES
    pc,               \* position of main: a startup step, "loop", "exited", "aborted"
    va, vb,           \* Result of VertexArray::new / Buffer::new
    vertex_shader,    \* Result of Shader::from_source(VERTEX_SHADER, ..)
    fragment_shader,  \* Result of Shader::from_source(FRAGMENT_SHADER, ..)
    program,          \* Result of Program::new
    link_result,      \* Result of program.link()
    glCalls,          \* trace of the calls made to the driver and the context
    drv,              \* what the driver last answered: names, status flags, swap (-1: not yet)
    created,          \* driver side: names of the shader objects created
    deleted,          \* driver side: DeleteShader calls received per name
    set_lens,         \* every Vec::set_len made on a diagnostic buffer
    panic,            \* message of the panic that aborted the process, or <<>>
    surface,          \* size of the presentation surface
    control_flow,     \* the event loop's ControlFlow
    cf_arg,           \* what the handler last left in its control_flow argument
    last_event,       \* the event the handler processed last
    nhandled,         \* number of handler invocations
    last_resized,     \* size carried by the most recent Resized event
    close_seen        \* a CloseRequested event was handled

vars == <<pc, va, vb, vertex_shader, fragment_shader, program, link_result, glCalls,
          drv, created, deleted, set_lens, panic, surface, control_flow, cf_arg,
          last_event, nhandled, last_resized, close_seen>>

objs     == <<va, vb, vertex_shader, fragment_shader, program, link_result>>
loopvars == <<surface, control_flow, cf_arg, last_event, nhandled, last_resized, close_seen>>

Init ==
    /\ pc = "context"
    /\ va = None /\ vb = None
    /\ vertex_shader = None /\ fragment_shader = None
    /\ program = None /\ link_result = None
    /\ glCalls = <<>>
    /\ drv = [va_id |-> -1, vb_id |-> -1, vs_id |-> -1, vs_status |-> -1,
              fs_id |-> -1, fs_status |-> -1, prog_id |-> -1, link_status |-> -1,
              swap |-> -1]
    /\ created = {}
    /\ deleted = [h \in 1..MaxHandle |-> 0]
    /\ set_lens = <<>>
    /\ panic = <<>>
    /\ surface = InitialSize
    /\ control_flow = "Poll"
    /\ cf_arg = "Poll"
    /\ last_event = "none"
    /\ nhandled = 0
    /\ last_resized = <<>>
    /\ close_seen = FALSE

\* unwrap() of an Err, or a panic raised inside the call: the process aborts
Abort(r) ==
    /\ pc' = "aborted"
    /\ panic' = IF r.tag = "Panic" THEN r.msg ELSE UnwrapPanic(r.msg)

\* names the driver can give a new shader or program object (one name space)
FreeNames == (1..MaxHandle) \ {h \in created : deleted[h] = 0}
ProgramNames == IF program.tag = "Ok" THEN {program.val} ELSE {}

(* ---- main: startup ---- *)
\* build_windowed(..).unwrap(), make_current().unwrap(), load_with, GetString
CreateContext ==
    /\ pc = "context"
    /\ \E ok \in BOOLEAN :
          IF ok
          THEN /\ pc' = "va_new"
               /\ glCalls' = glCalls \o <<Call("make_current", <<>>), Call("load_with", <<>>),
                                          Call("GetString", <<>>)>>
               /\ UNCHANGED panic
          ELSE /\ Abort(Err(<<"CreationError">>))
               /\ UNCHANGED glCalls
    /\ UNCHANGED <<objs, drv, created, deleted, set_lens, loopvars>>

\* let va = VertexArray::new().unwrap(); va.bind();
CreateVertexArray ==
    /\ pc = "va_new"
    /\ \E id \in ArrayNames :
          LET r == VertexArray_new(id)
          IN  /\ va' = r
              /\ drv' = [drv EXCEPT !.va_id = id]
              /\ IF r.tag = "Ok"
                 THEN /\ pc' = "vb_new"
                      /\ glCalls' = glCalls \o <<Call("GenVertexArrays", <<1>>),
                                                 Call("BindVertexArray", <<r.val>>)>>
                      /\ UNCHANGED panic
                 ELSE /\ Abort(r)
                      /\ glCalls' = Append(glCalls, Call("GenVertexArrays", <<1>>))
    /\ UNCHANGED <<vb, vertex_shader, fragment_shader, program, link_result,
                   created, deleted, set_lens, loopvars>>

\* bytemuck::cast_slice(&VERTICES).len()
VerticesByteLen == VertexCount * VertexComponents * FloatSize
\* std::mem::size_of::<Vertex>()
VertexStride == VertexComponents * FloatSize

\* let vb = Buffer::new().unwrap(); vb.bind; vb.data; VertexAttribPointer; Enable..
CreateBuffer ==
    /\ pc = "vb_new"
    /\ \E id \in ArrayNames :
          LET r == Buffer_new(id)
          IN  /\ vb' = r
              /\ drv' = [drv EXCEPT !.vb_id = id]
              /\ IF r.tag = "Ok"
                 THEN /\ pc' = "vs_compile"
                      /\ glCalls' = glCalls \o
                            <<Call("GenBuffers", <<1>>),
                              Call("BindBuffer", <<GL_ARRAY_BUFFER, r.val>>),
                              Call("BufferData", <<GL_ARRAY_BUFFER, VerticesByteLen, GL_STATIC_DRAW>>),
                              Call("VertexAttribPointer",
                                   <<0, VertexComponents, GL_FLOAT, GL_FALSE, VertexStride, 0>>),
                              Call("EnableVertexAttribArray", <<0>>)>>
                      /\ UNCHANGED panic
                 ELSE /\ Abort(r)
                      /\ glCalls' = Append(glCalls, Call("GenBuffers", <<1>>))
    /\ UNCHANGED <<va, vertex_shader, fragment_shader, program, link_result,
                   created, deleted, set_lens, loopvars>>

\* the driver's answers to one Shader::from_source: the name, the status
\* flag, and (read only when the status is 0) the info log
CompileAnswers ==
    {[id |-> 0, success |-> 0, log |-> <<>>]}
      \cup {[id |-> i, success |-> 1, log |-> <<>>] : i \in FreeNames \ ProgramNames}
      \cup {[id |-> i, success |-> 0, log |-> l] :
               i \in FreeNames \ ProgramNames, l \in DriverLogs(InfoLogMaxLength)}

\* let vertex_shader = Shader::from_source(gl::VERTEX_SHADER, VERT_SHADER).unwrap();
CompileVertexShader ==
    /\ pc = "vs_compile"
    /\ \E a \in CompileAnswers :
          LET r == Shader_from_source(GL_VERTEX_SHADER, a.id, a.success, a.log)
          IN  /\ vertex_shader' = r.result
              /\ glCalls' = glCalls \o r.calls
              /\ set_lens' = set_lens \o r.set_len
              /\ created' = IF a.id = 0 THEN created ELSE created \cup {a.id}
              /\ drv' = IF a.id = 0 THEN [drv EXCEPT !.vs_id = 0]
                        ELSE [drv EXCEPT !.vs_id = a.id, !.vs_status = a.success]
              /\ IF r.result.tag = "Ok"
                 THEN pc' = "fs_compile" /\ UNCHANGED panic
                 ELSE Abort(r.result)
    /\ UNCHANGED <<va, vb, fragment_shader, program, link_result, deleted, loopvars>>

\* let fragment_shader = Shader::from_source(gl::FRAGMENT_SHADER, FRAG_SHADER).unwrap();
CompileFragmentShader ==
    /\ pc = "fs_compile"
    /\ \E a \in CompileAnswers :
          LET r == Shader_from_source(GL_FRAGMENT_SHADER, a.id, a.success, a.log)
          IN  /\ fragment_shader' = r.result
              /\ glCalls' = glCalls \o r.calls
              /\ set_lens' = set_lens \o r.set_len
              /\ created' = IF a.id = 0 THEN created ELSE created \cup {a.id}
              /\ drv' = IF a.id = 0 THEN [drv EXCEPT !.fs_id = 0]
                        ELSE [drv EXCEPT !.fs_id = a.id, !.fs_status = a.success]
              /\ IF r.result.tag = "Ok"
                 THEN pc' = "prog_new" /\ UNCHANGED panic
                 ELSE Abort(r.result)
    /\ UNCHANGED <<va, vb, vertex_shader, program, link_result, deleted, loopvars>>

\* let program = Program::new().unwrap(); program.attach(..); program.attach(..);
CreateProgram ==
    /\ pc = "prog_new"
    /\ \E id \in {0} \cup FreeNames :
          LET r == Program_new(id)
          IN  /\ program' = r
              /\ drv' = [drv EXCEPT !.prog_id = id]
              /\ IF r.tag = "Ok"
                 THEN /\ pc' = "link"
                      /\ glCalls' = glCalls \o
                            <<Call("CreateProgram", <<>>),
                              Call("AttachShader", <<r.val, vertex_shader.val>>),
                              Call("AttachShader", <<r.val, fragment_shader.val>>)>>
                      /\ UNCHANGED panic
                 ELSE /\ Abort(r)
                      /\ glCalls' = Append(glCalls, Call("CreateProgram", <<>>))
    /\ UNCHANGED <<va, vb, vertex_shader, fragment_shader, link_result,
                   created, deleted, set_lens, loopvars>>

\* program.link().unwrap();
LinkProgram ==
    /\ pc = "link"
    /\ \E success \in {0, 1} :
       \E log \in (IF success = 0 THEN DriverLogs(InfoLogMaxLength) ELSE {<<>>}) :
          LET r == Program_link(program.val, success, log)
          IN  /\ link_result' = r.result
              /\ glCalls' = glCalls \o r.calls
              /\ set_lens' = set_lens \o r.set_len
              /\ drv' = [drv EXCEPT !.link_status = success]
              /\ IF r.result.tag = "Ok"
                 THEN pc' = "use" /\ UNCHANGED panic
                 ELSE Abort(r.result)
    /\ UNCHANGED <<va, vb, vertex_shader, fragment_shader, program,
                   created, deleted, loopvars>>

\* program.use_program();
UseProgram ==
    /\ pc = "use"
    /\ glCalls' = Append(glCalls, Call("UseProgram", <<program.val>>))
    /\ pc' = "del_vs"
    /\ UNCHANGED <<objs, drv, created, deleted, set_lens, panic, loopvars>>

\* Shader::delete
Shader_delete(id) ==
    /\ glCalls' = Append(glCalls, Call("DeleteShader", <<id>>))
    /\ deleted' = [deleted EXCEPT ![id] = @ + 1]

\* vertex_shader.delete();
DeleteVertexShader ==
    /\ pc = "del_vs"
    /\ Shader_delete(vertex_shader.val)
    /\ pc' = "del_fs"
    /\ UNCHANGED <<objs, drv, created, set_lens, panic, loopvars>>

\* faulty variant: the fragment shader is not deleted
DeleteFragmentShader_mut ==
    /\ pc = "del_fs"
    /\ pc' = "loop"
    /\ UNCHANGED <<glCalls, deleted, objs, drv, created, set_lens, panic, loopvars>>

\* fragment_shader.delete();  and main goes on to event_loop.run
DeleteFragmentShader ==
    /\ pc = "del_fs"
    /\ Shader_delete(fragment_shader.val)
    /\ pc' = "loop"
    /\ UNCHANGED <<objs, drv, created, set_lens, panic, loopvars>>

(* ---- main: the handler given to event_loop.run ---- *)
\* ControlFlow::Exit is sticky in the event loop: once set, a later write of
\* the handler does not change it
StickyExit(cf, out) == IF cf = "Exit" THEN "Exit" ELSE out

\* one invocation of the handler on event ev, leaving out in *control_flow
\* (the handler starts with *control_flow = ControlFlow::Wait)
Delivered(ev, out) ==
    /\ last_event' = ev
    /\ nhandled' = nhandled + 1
    /\ cf_arg' = out
    /\ control_flow' = StickyExit(control_flow, out)

\* events reach the handler while the loop runs; after Exit is set the loop
\* still hands over the events left in the current iteration
Delivering == pc = "loop" /\ nhandled < MaxEvents

\* faulty variant: the new size is dropped
OnResized_mut(cur, physical_size) == cur
\* WindowEvent::Resized(physical_size) => windowed_context.resize(physical_size)
OnResized(cur, physical_size) == physical_size

HandleResized ==
    /\ Delivering
    /\ \E physical_size \in Sizes :
          /\ surface' = OnResized(surface, physical_size)
          /\ last_resized' = physical_size
          /\ glCalls' = Append(glCalls, Call("resize", physical_size))
    /\ Delivered("Resized", "Wait")
    /\ UNCHANGED <<pc, objs, drv, created, deleted, set_lens, panic, close_seen>>

\* faulty variant: the close request does not set Exit
OnCloseRequested_mut == "Wait"
\* WindowEvent::CloseRequested => *control_flow = ControlFlow::Exit
OnCloseRequested == "Exit"

HandleCloseRequested ==
    /\ Delivering
    /\ Delivered("CloseRequested", OnCloseRequested)
    /\ close_seen' = TRUE
    /\ UNCHANGED <<pc, objs, glCalls, drv, created, deleted, set_lens, panic,
                   surface, last_resized>>

\* faulty variant: the draw is issued before the clear
RedrawCalls_mut ==
    <<Call("ClearColor", ClearColorTenths),
      Call("DrawArrays", <<GL_TRIANGLES, 0, VertexCount>>),
      Call("Clear", <<GL_COLOR_BUFFER_BIT>>)>>
\* Event::RedrawRequested(_): ClearColor, Clear, DrawArrays
RedrawCalls ==
    <<Call("ClearColor", ClearColorTenths),
      Call("Clear", <<GL_COLOR_BUFFER_BIT>>),
      Call("DrawArrays", <<GL_TRIANGLES, 0, VertexCount>>)>>

\* ... then windowed_context.swap_buffers().unwrap()
HandleRedrawRequested ==
    /\ Delivering
    /\ \E swap_ok \in BOOLEAN :
          /\ glCalls' = glCalls \o RedrawCalls \o <<Call("swap_buffers", surface)>>
          /\ drv' = [drv EXCEPT !.swap = IF swap_ok THEN 1 ELSE 0]
          /\ IF swap_ok
             THEN UNCHANGED <<pc, panic>>
             ELSE Abort(Err(<<"ContextError">>))
    /\ Delivered("RedrawRequested", "Wait")
    /\ UNCHANGED <<objs, created, deleted, set_lens, surface, last_resized, close_seen>>

\* the two `_ => ()` arms: any other window event, any other event
HandleOtherEvent ==
    /\ Delivering
    /\ \E ev \in {"WindowEvent::Other", "Other"} : Delivered(ev, "Wait")
    /\ UNCHANGED <<pc, objs, glCalls, drv, created, deleted, set_lens, panic,
                   surface, last_resized, close_seen>>

\* Event::LoopDestroyed => (): the last event, sent once the loop has Exit
HandleLoopDestroyed ==
    /\ pc = "loop"
    /\ control_flow = "Exit"
    /\ Delivered("LoopDestroyed", "Wait")
    /\ pc' = "exited"
    /\ UNCHANGED <<objs, glCalls, drv, created, deleted, set_lens, panic,
                   surface, last_resized, close_seen>>

Next ==
    \/ CreateContext
    \/ CreateVertexArray
    \/ CreateBuffer
    \/ CompileVertexShader
    \/ CompileFragmentShader
    \/ CreateProgram
    \/ LinkProgram
    \/ UseProgram
    \/ DeleteVertexShader
    \/ DeleteFragmentShader
    \/ HandleResized
    \/ HandleCloseRequested
    \/ HandleRedrawRequested
    \/ HandleOtherEvent
    \/ HandleLoopDestroyed

Spec == Init /\ [][Next]_vars

(* ======================= properties ======================= *)
\* positions of a call in the trace
Pos(c) == {i \in DOMAIN glCalls : glCalls[i] = c}
\* the position of a call made exactly once, else 0
Only(c) == IF Cardinality(Pos(c)) = 1 THEN CHOOSE i \in Pos(c) : TRUE ELSE 0
\* positions of the calls of one name
Named(name) == {i \in DOMAIN glCalls : glCalls[i][1] = name}
PaintNames == {"ClearColor", "Clear", "DrawArrays", "swap_buffers"}
Paints(calls) == {i \in DOMAIN calls : calls[i][1] \in PaintNames}
\* a step that is one invocation of the handler
Handled == nhandled' = nhandled + 1
\* the event loop was entered
EnteredLoop == pc \in {"loop", "exited"} \/ nhandled > 0

C1_Created(r, id) ==
    /\ (r.tag = "Ok" => r.val # 0)
    /\ (id = 0 => r.tag = "Err")
    /\ (id > 0 => r.tag = "Ok" /\ r.val = id)
\* C1: VertexArray::new, Buffer::new and Program::new never return Ok around
\* a zero handle: a zero handle from the driver gives Err, a nonzero handle
\* gives Ok wrapping exactly that handle.
C1_CreationNeverWrapsZero ==
    /\ C1_Created(va, drv.va_id)
    /\ C1_Created(vb, drv.vb_id)
    /\ C1_Created(program, drv.prog_id)
C1_Witness ==
    /\ va.tag = "Ok" /\ drv.va_id > 0
    /\ vb.tag = "Ok" /\ drv.vb_id > 0
    /\ program.tag = "Err" /\ drv.prog_id = 0

C2_Compiled(r, id, status) ==
    /\ (r.tag = "Ok" => id > 0 /\ status > 0 /\ r.val = id)
    /\ (status = 0 => r.tag = "Err" /\ r.msg # <<>>
                      /\ \A i \in DOMAIN r.msg : r.msg[i] # "")
\* C2: Shader::from_source returns Ok(Shader) only for a nonzero shader name
\* whose compile-status flag is nonzero; a zero compile-status flag gives Err
\* with a non-empty diagnostic and no Shader, whatever the log length.
C2_FromSourceResult ==
    /\ C2_Compiled(vertex_shader, drv.vs_id, drv.vs_status)
    /\ C2_Compiled(fragment_shader, drv.fs_id, drv.fs_status)
C2_Witness ==
    /\ vertex_shader.tag = "Ok"
    /\ drv.fs_status = 0
    /\ fragment_shader.tag = "Err"
    /\ set_lens = <<[len |-> 0, cap |-> InfoLogCapacity]>>

\* C3: Program::link on a program with both compiled shaders attached returns
\* Ok when the link-status flag is nonzero and otherwise Err with a non-empty
\* diagnostic: a failed link is never Ok and never has an empty diagnostic.
C3_LinkResult ==
    /\ (link_result.tag = "Ok" => drv.link_status > 0)
    /\ (drv.link_status > 0 => link_result.tag = "Ok")
    /\ (drv.link_status = 0 =>
            /\ link_result.tag = "Err"
            /\ link_result.msg # <<>>
            /\ \A i \in DOMAIN link_result.msg : link_result.msg[i] # "")
    /\ (drv.link_status >= 0 =>
            /\ vertex_shader.tag = "Ok" /\ fragment_shader.tag = "Ok"
            /\ Pos(Call("AttachShader", <<program.val, vertex_shader.val>>)) # {}
            /\ Pos(Call("AttachShader", <<program.val, fragment_shader.val>>)) # {})
C3_Witness ==
    /\ drv.link_status = 0
    /\ link_result.tag = "Err"
    /\ set_lens = <<[len |-> 0, cap |-> InfoLogCapacity]>>

\* C4 as claimed: in a run that reaches the event loop both shader deletions
\* happen after the link and before the program is activated.
C4_DeletesBeforeActivate ==
    EnteredLoop =>
        \A u \in Named("UseProgram") : \A d \in Named("DeleteShader") :
            \A l \in Named("LinkProgram") : l < d /\ d < u

\* C4 amended: in a run that reaches the event loop the tail of startup is:
\* program linked, program activated, vertex shader deleted, fragment shader
\* deleted, each exactly once and in that order.
C4_TailOrder ==
    EnteredLoop =>
        LET l  == Only(Call("LinkProgram", <<program.val>>))
            u  == Only(Call("UseProgram", <<program.val>>))
            dv == Only(Call("DeleteShader", <<vertex_shader.val>>))
            df == Only(Call("DeleteShader", <<fragment_shader.val>>))
        IN  /\ Named("LinkProgram") = {l} /\ Named("UseProgram") = {u}
            /\ Named("DeleteShader") = {dv, df}
            /\ 0 < l /\ l < u /\ u < dv /\ dv < df
C4_Witness ==
    /\ pc = "loop"
    /\ Named("DeleteShader") # {}
    /\ Named("UseProgram") # {}

C5_SetupFailed ==
    \/ drv.va_id = 0 \/ drv.vb_id = 0 \/ drv.vs_id = 0 \/ drv.fs_id = 0
    \/ drv.prog_id = 0
    \/ drv.vs_status = 0 \/ drv.fs_status = 0 \/ drv.link_status = 0
C5_SetupDone ==
    /\ drv.va_id > 0 /\ drv.vb_id > 0 /\ drv.vs_id > 0 /\ drv.fs_id > 0
    /\ drv.prog_id > 0
    /\ drv.vs_status > 0 /\ drv.fs_status > 0 /\ drv.link_status > 0
\* C5: nothing is cleared, drawn or presented unless startup completed in
\* order; when a setup step fails (zero handle, compile failure, link failure)
\* the process aborts before the event loop and no clear, draw or swap happens.
C5_NoDrawUnlessSetUp ==
    /\ C5_SetupFailed => pc = "aborted" /\ nhandled = 0 /\ Paints(glCalls) = {}
    /\ \A i \in Paints(glCalls) :
          /\ C5_SetupDone
          /\ LET a == Only(Call("BindVertexArray", <<drv.va_id>>))
                 b == Only(Call("BindBuffer", <<GL_ARRAY_BUFFER, drv.vb_id>>))
                 c == Only(Call("CompileShader", <<drv.vs_id>>))
                 d == Only(Call("CompileShader", <<drv.fs_id>>))
                 e == Only(Call("LinkProgram", <<drv.prog_id>>))
                 f == Only(Call("UseProgram", <<drv.prog_id>>))
             IN  0 < a /\ a < b /\ b < c /\ c < d /\ d < e /\ e < f /\ f < i
C5_Witness ==
    /\ pc = "aborted"
    /\ drv.vs_status > 0
    /\ drv.fs_status = 0
    /\ nhandled = 0

C6_Expected ==
    <<<<"ClearColor", <<2, 3, 3, 10>>>>, <<"Clear", <<16384>>>>,
      <<"DrawArrays", <<4, 0, 3>>>>, <<"swap_buffers", surface>>>>
C6_RedrawStep ==
    /\ pc # "aborted"     \* no step is taken once the process has aborted
    /\ Handled =>
          IF last_event' = "RedrawRequested"
          THEN /\ glCalls' = glCalls \o C6_Expected
               /\ drv'.swap \in {0, 1}
               /\ (drv'.swap = 0 => pc' = "aborted")
               /\ (drv'.swap = 1 => pc' = pc)
          ELSE /\ Len(glCalls') >= Len(glCalls)
               /\ SubSeq(glCalls', 1, Len(glCalls)) = glCalls
               /\ Paints(glCalls') = Paints(glCalls)
\* C6: handling one RedrawRequested makes, in this order, one clear to
\* (0.2, 0.3, 0.3, 1.0), one draw of 3 vertices as triangles from index 0 and
\* one swap; a failed swap ends the process; no other event clears, draws or
\* swaps.
C6_RedrawOnce == [][C6_RedrawStep]_vars
C6_Witness ==
    /\ last_event = "RedrawRequested"
    /\ drv.swap = 1
    /\ pc = "loop"
    /\ Cardinality(Named("DrawArrays")) = 1

C7_ResizeStep ==
    Handled =>
        /\ last_event' = "Resized" =>
              /\ surface' = last_resized'
              /\ glCalls' = Append(glCalls, <<"resize", last_resized'>>)
              /\ cf_arg' = "Wait"
              /\ (control_flow # "Exit" => control_flow' = "Wait")
              /\ UNCHANGED <<pc, objs, drv, created, deleted, set_lens, panic, close_seen>>
        /\ (last_event' = "RedrawRequested" /\ last_resized # <<>>) =>
              glCalls'[Len(glCalls')] = <<"swap_buffers", last_resized>>
\* C7: handling Resized(W, H) sets the surface size to (W, H) and does nothing
\* else: no clear, draw or swap, no redraw request, the handler leaves Wait;
\* a later redraw presents with the size of the most recent resize.
C7_ResizeOnly == [][C7_ResizeStep]_vars
C7_Witness ==
    /\ pc = "loop"
    /\ drv.swap = 1
    /\ last_event = "RedrawRequested"
    /\ last_resized # <<>>
    /\ last_resized # InitialSize
    /\ glCalls[Len(glCalls)] = <<"swap_buffers", last_resized>>

C8_NothingAfterCloseStep ==
    (close_seen /\ Handled) =>
        /\ glCalls' = glCalls
        /\ surface' = surface
        /\ cf_arg' # "Wait"
\* C8 as claimed: after a close request no further event is processed: no
\* resize, clear, draw or swap is made and the handler never writes Wait again.
C8_NothingAfterClose == [][C8_NothingAfterCloseStep]_vars

\* C8 amended: a close request sets the loop's control flow to Exit and it
\* stays Exit, although the handler writes Wait into its control-flow argument
\* on every later invocation; the loop ends (LoopDestroyed) only after a close
\* request.
C8_CloseIsSticky ==
    /\ close_seen => control_flow = "Exit"
    /\ control_flow = "Exit" => close_seen
    /\ pc = "exited" => close_seen /\ last_event = "LoopDestroyed"
C8_Witness ==
    /\ pc = "exited"
    /\ cf_arg = "Wait"
    /\ control_flow = "Exit"
    /\ Named("swap_buffers") # {}
    /\ glCalls[Len(glCalls)][1] = "swap_buffers"
    /\ nhandled = 3

\* C9: every shader object the driver created is released by DeleteShader
\* exactly once on every exit path of startup (abort or entry to the loop).
C9_ShadersReleasedOnce ==
    /\ \A h \in 1..MaxHandle : deleted[h] <= 1
    /\ (pc \in {"aborted", "loop", "exited"}) =>
          \A h \in created : deleted[h] = 1

\* C10: the length given to set_len on a diagnostic buffer is within
\* 0..=1024 and within the buffer's capacity for every log length the driver
\* reports, and the conversion of the length never panics.
C10_SetLenWithinCapacity ==
    /\ \A i \in DOMAIN set_lens :
          /\ set_lens[i].len >= 0
          /\ set_lens[i].len <= 1024
          /\ set_lens[i].len <= set_lens[i].cap
    /\ panic # UnwrapPanic(<<"TryFromIntError(())">>)
    /\ (drv.vs_status = 0 \/ drv.fs_status = 0 \/ drv.link_status = 0) => Len(set_lens) = 1
C10_Witness ==
    /\ drv.link_status = 0
    /\ set_lens = <<[len |-> InfoLogMaxLength - 1, cap |-> InfoLogCapacity]>>

====
